---- MODULE Spec2Model ----
(***************************************************************************)
(* Model of src/bitcoin.js: the transaction builder createFinalTx and the  *)
(* payment watcher waitForPayment.                                         *)
(*                                                                         *)
(* JavaScript numbers are modelled as exact rationals n/d plus NaN and     *)
(* undefined; hex strings are sequences of hex digits 0..15; Buffers are   *)
(* sequences of bytes.  JavaScript arrays are 0-based, sequences here are  *)
(* 1-based: tx.outs[0] of the source is tx.outs[1] of the model.           *)
(***************************************************************************)
EXTENDS Integers, Sequences, FiniteSets, TLC

VARIABLES
    DEV,            \* process.env.NODE_ENV === 'development'
    pc,             \* position inside createFinalTx
    wallet,         \* argument wallet
    inputs,         \* argument inputs, as inputs.utxos after line 80
    feeRate,        \* argument feeRate
    inputAmount,    \* inputs.amount
    tx,             \* local tx
    feeAmount,      \* local feeAmount
    i,              \* loop variable of the signing loop (1-based)
    byteLengthCalls,\* number of tx.byteLength() evaluations so far
    error,          \* the Error thrown, if any
    result,         \* the value returned to the caller, if any
    interval,       \* waitForPayment: the setInterval timer is armed
    started,        \* waitForPayment has been called
    inFlight,       \* fetchUtxos requests sent and not yet answered
    doneCalls,      \* number of times done has run
    cbCalls         \* invocations of the caller's cb, oldest first

buildVars == <<pc, wallet, inputs, feeRate, inputAmount, tx, feeAmount, i,
               byteLengthCalls, error, result>>
watchVars == <<interval, started, inFlight, doneCalls, cbCalls>>
vars == <<DEV, buildVars, watchVars>>

\* ---------------------------------------------------------------- bounds
MaxInputs == 2
MaxInFlight == 3

\* ------------------------------------------------------ program constants
MINIMUM_AMOUNT == IF DEV THEN 60000 ELSE 1000000
ATOMS_PER_BTC == 2000
MINIMUM_OUTPUT == 1000
SATOSHIS_PER_BTC == 100000000
SIGHASH_ALL == 1

\* ------------------------------------------------------ JavaScript numbers
RECURSIVE Gcd(_, _)
Gcd(a, b) == IF b = 0 THEN a ELSE Gcd(b, a % b)

Abs(a) == IF a < 0 THEN -a ELSE a

Rat(n, d) ==
    LET g == Gcd(Abs(n), d)
    IN  [kind |-> "num", n |-> n \div g, d |-> d \div g]

Num(k) == Rat(k, 1)
NaN == [kind |-> "nan", n |-> 0, d |-> 1]
Undefined == [kind |-> "undefined", n |-> 0, d |-> 1]

\* ToNumber of the values the model uses
ToNumber(v) == IF v.kind = "num" THEN v ELSE NaN

\* !v
JsNot(v) == v.kind # "num" \/ v.n = 0

\* a < b
JsLess(a, b) ==
    LET x == ToNumber(a)
        y == ToNumber(b)
    IN  x.kind = "num" /\ y.kind = "num" /\ x.n * y.d < y.n * x.d

\* a * b
JsMul(a, b) ==
    LET x == ToNumber(a)
        y == ToNumber(b)
    IN  IF x.kind = "nan" \/ y.kind = "nan" THEN NaN
        ELSE Rat(x.n * y.n, x.d * y.d)

\* a - b
JsSub(a, b) ==
    LET x == ToNumber(a)
        y == ToNumber(b)
    IN  IF x.kind = "nan" \/ y.kind = "nan" THEN NaN
        ELSE Rat(x.n * y.d - y.n * x.d, x.d * y.d)

\* ------------------------------------------------------------- hex, Buffer
\* Buffer(hex, 'hex'): two hex digits per byte
HexDecode(hex) ==
    [k \in 1..(Len(hex) \div 2) |-> 16 * hex[2 * k - 1] + hex[2 * k]]

\* JavaScript strings that may be missing: a hex string, or undefined
Str(hex) == [kind |-> "string", hex |-> hex]
NoStr == [kind |-> "undefined", hex |-> <<>>]

\* Buffer(v, 'hex') throws a TypeError when v is not a string
BufferThrows(v) == v.kind # "string"

\* ----------------------------------------------------------- the inputs
\* The unspent outputs a call may be given: distinct outpoints, as in a UTXO
\* set; the fourth has lost its script field.
UtxoPool ==
    { [tx_hash |-> <<10, 10>>, tx_output_n |-> 0, value |-> 700000,
       script |-> Str(<<1, 1>>)],
      [tx_hash |-> <<10, 10>>, tx_output_n |-> 1, value |-> 400000,
       script |-> Str(<<2, 2>>)],
      [tx_hash |-> <<11, 11>>, tx_output_n |-> 0, value |-> 60000,
       script |-> Str(<<3, 3>>)],
      [tx_hash |-> <<12, 12>>, tx_output_n |-> 1, value |-> 1000000,
       script |-> NoStr],
      [tx_hash |-> <<11, 11>>, tx_output_n |-> 2, value |-> 30000,
       script |-> Str(<<1, 1>>)] }

\* sequences of distinct pool elements, at most MaxInputs long
InputLists ==
    UNION { { s \in [1..n -> UtxoPool] :
                \A a, b \in 1..n : a # b => s[a] # s[b] } : n \in 0..MaxInputs }

FeeRates ==
    { Undefined, NaN, Num(-1), Num(0), Rat(1, 2), Num(1), Num(50), Num(500) }

\* wallets: the second one holds a private key secp256k1 rejects
Wallets ==
    { [privateKey |-> "k1", privateKeyValid |-> TRUE, publicKey |-> "P1",
       cosmos |-> <<12, 0, 5, 14>>],
      [privateKey |-> "k0", privateKeyValid |-> FALSE, publicKey |-> "P0",
       cosmos |-> <<12, 0, 5, 14>>] }

\* ------------------------------------------------------- bitcoinjs-lib
\* new Transaction()
NewTransaction == [ins |-> <<>>, outs |-> <<>>]

\* the hash160 that EXODUS_ADDRESS encodes (an opaque byte string here)
ExodusPubKeyHash == <<14, 10>>

\* address.toOutputScript / script.pubKeyHashOutput: a pay-to-pubkey-hash script
PubKeyHashOutput(hash) == [kind |-> "p2pkh", hash |-> hash]

\* script.pubKeyHashInput(signature, pubKey)
PubKeyHashInput(signature, pubKey) == <<signature, pubKey>>

\* tx.addInput(hash, index): the script starts empty
TxAddInput(t, hash, index) ==
    [t EXCEPT !.ins = Append(@, [hash |-> hash, index |-> index, script |-> <<>>])]

\* tx.addOutput(script, value)
TxAddOutput(t, scr, value) ==
    [t EXCEPT !.outs = Append(@, [script |-> scr, value |-> value])]

VarIntSize(n) == IF n < 253 THEN 1 ELSE IF n < 65536 THEN 3 ELSE 5

\* bytes of an unlocking script: empty before signing, then
\* push(DER signature + hash type) push(compressed public key)
InputScriptSize(scr) == IF scr = <<>> THEN 0 ELSE (1 + 72) + (1 + 33)

\* bytes of a pay-to-pubkey-hash locking script
OutputScriptSize(scr) == 25

RECURSIVE SumSizes(_, _)
SumSizes(sizes, k) == IF k = 0 THEN 0 ELSE sizes[k] + SumSizes(sizes, k - 1)

\* tx.byteLength(): version, inputs, outputs, locktime
ByteLength(t) ==
    LET inSize == [k \in 1..Len(t.ins) |->
                      40 + VarIntSize(InputScriptSize(t.ins[k].script))
                         + InputScriptSize(t.ins[k].script)]
        outSize == [k \in 1..Len(t.outs) |->
                      8 + VarIntSize(OutputScriptSize(t.outs[k].script))
                        + OutputScriptSize(t.outs[k].script)]
    IN  4 + VarIntSize(Len(t.ins)) + SumSizes(inSize, Len(t.ins))
          + VarIntSize(Len(t.outs)) + SumSizes(outSize, Len(t.outs)) + 4

\* tx.hashForSignature(k, prevOutScript, hashType): the digest of a copy of
\* the transaction with every unlocking script blanked and prevOutScript put
\* at input k.  The digest is kept as the data it commits to.
HashForSignature(t, k, prevOutScript, hashType) ==
    [outpoints |-> [j \in 1..Len(t.ins) |-> <<t.ins[j].hash, t.ins[j].index>>],
     scripts |-> [j \in 1..Len(t.ins) |-> IF j = k THEN prevOutScript ELSE <<>>],
     outs |-> t.outs,
     hashType |-> hashType]

\* sign(privKey, sigHash): low-S normalised, DER encoded
Sign(privKey, sigHash) ==
    [sigHash |-> sigHash, key |-> privKey, lowS |-> TRUE, hashTypeByte |-> 0]

\* concat(signature, byte(sigHashType))
AppendHashType(signature, hashType) ==
    [signature EXCEPT !.hashTypeByte = hashType]

\* -------------------------------------------------------- createFinalTx
NoError == [kind |-> "none", info |-> <<>>]

RECURSIVE SumValues(_, _)
\* let inputAmount = 0; for (let input of inputs) inputAmount += input.value
SumValues(utxos, k) ==
    IF k = 0 THEN 0 ELSE SumValues(utxos, k - 1) + utxos[k].value

\* the threshold check made against the wrong constant
BelowMinimumOutput(amount) == amount < MINIMUM_OUTPUT

\* inputs.amount < MINIMUM_AMOUNT
BelowMinimum(amount) == amount < MINIMUM_AMOUNT

\* the fee rate check without its falsiness test: feeRate === undefined || feeRate < 0
InvalidFeeRateOnlyMissing(rate) == rate.kind = "undefined" \/ JsLess(rate, Num(0))

\* !feeRate || feeRate < 0
InvalidFeeRate(rate) == JsNot(rate) \/ JsLess(rate, Num(0))

\* the fee check without the output floor: (tx.outs[0].value - feeAmount) < 0
FeeExceedsFundsNoFloor(value, fee) == JsLess(JsSub(value, fee), Num(0))

\* (tx.outs[0].value - feeAmount) < MINIMUM_OUTPUT
FeeExceedsFunds(value, fee) == JsLess(JsSub(value, fee), Num(MINIMUM_OUTPUT))

\* the signing loop reading inputs.utxos[0] for every input
PrevOutFirst(utxos, k) == utxos[1]

\* inputs.utxos[i], the utxo associated with input i
PrevOut(utxos, k) == utxos[k]

\* (tx.outs[0].value * ATOMS_PER_BTC) / 1e8, with the constant factor reduced
\* first so that the exact product stays within 32-bit integers
AtomAmount(value) == JsMul(value, Rat(ATOMS_PER_BTC, SATOSHIS_PER_BTC))

Throw(kind, info) ==
    /\ pc' = "threw"
    /\ error' = [kind |-> kind, info |-> info]

Call ==
    /\ pc = "idle"
    /\ \E w \in Wallets, ins \in InputLists, rate \in FeeRates :
         /\ wallet' = w
         /\ inputs' = ins
         /\ feeRate' = rate
         /\ inputAmount' = SumValues(ins, Len(ins))
    /\ pc' = "checkAmount"
    /\ UNCHANGED <<DEV, tx, feeAmount, i, byteLengthCalls, error, result, watchVars>>

CheckAmount ==
    /\ pc = "checkAmount"
    /\ IF BelowMinimum(inputAmount)
       THEN Throw("InsufficientAggregateAmount", <<MINIMUM_AMOUNT, inputAmount>>)
       ELSE pc' = "checkFeeRate" /\ error' = error
    /\ UNCHANGED <<DEV, wallet, inputs, feeRate, inputAmount, tx, feeAmount, i,
                   byteLengthCalls, result, watchVars>>

CheckFeeRate ==
    /\ pc = "checkFeeRate"
    /\ IF InvalidFeeRate(feeRate)
       THEN Throw("InvalidFeeRate", <<>>) /\ tx' = tx
       ELSE pc' = "addInputs" /\ error' = error /\ tx' = NewTransaction
    /\ UNCHANGED <<DEV, wallet, inputs, feeRate, inputAmount, feeAmount, i,
                   byteLengthCalls, result, watchVars>>

AddInput ==
    /\ pc = "addInputs"
    /\ Len(tx.ins) < Len(inputs)
    /\ LET output == inputs[Len(tx.ins) + 1]
           txid == HexDecode(output.tx_hash)
       IN  tx' = TxAddInput(tx, txid, output.tx_output_n)
    /\ UNCHANGED <<DEV, pc, wallet, inputs, feeRate, inputAmount, feeAmount, i,
                   byteLengthCalls, error, result, watchVars>>

AddExodusOutput ==
    /\ pc = "addInputs"
    /\ Len(tx.ins) = Len(inputs)
    /\ tx' = TxAddOutput(tx, PubKeyHashOutput(ExodusPubKeyHash), Num(inputAmount))
    /\ pc' = "addCosmosOutput"
    /\ UNCHANGED <<DEV, wallet, inputs, feeRate, inputAmount, feeAmount, i,
                   byteLengthCalls, error, result, watchVars>>

AddCosmosOutput ==
    /\ pc = "addCosmosOutput"
    /\ LET cosmosAddress == HexDecode(wallet.cosmos)
       IN  tx' = TxAddOutput(tx, PubKeyHashOutput(cosmosAddress), Num(MINIMUM_OUTPUT))
    /\ pc' = "computeFee"
    /\ UNCHANGED <<DEV, wallet, inputs, feeRate, inputAmount, feeAmount, i,
                   byteLengthCalls, error, result, watchVars>>

ComputeFee ==
    /\ pc = "computeFee"
    /\ feeAmount' = JsMul(Num(ByteLength(tx)), feeRate)
    /\ byteLengthCalls' = byteLengthCalls + 1
    /\ pc' = "checkFee"
    /\ UNCHANGED <<DEV, wallet, inputs, feeRate, inputAmount, tx, i, error, result,
                   watchVars>>

CheckFee ==
    /\ pc = "checkFee"
    /\ IF FeeExceedsFunds(tx.outs[1].value, feeAmount)
       THEN /\ Throw("FeeExceedsAvailableFunds",
                     <<ByteLength(tx), feeRate, feeAmount, tx.outs[1].value>>)
            /\ byteLengthCalls' = byteLengthCalls + 1
       ELSE /\ pc' = "deductFee"
            /\ error' = error
            /\ byteLengthCalls' = byteLengthCalls
    /\ UNCHANGED <<DEV, wallet, inputs, feeRate, inputAmount, tx, feeAmount, i,
                   result, watchVars>>

\* the fee deduction moved below the signing loop
DeductFeeAfterSigning ==
    \/ /\ pc = "deductFee"
       /\ pc' = "signInputs"
       /\ i' = 1
       /\ UNCHANGED <<DEV, wallet, inputs, feeRate, inputAmount, tx, feeAmount,
                      byteLengthCalls, error, result, watchVars>>
    \/ /\ pc = "signInputs"
       /\ i = Len(tx.ins) + 1
       /\ tx' = [tx EXCEPT !.outs[1].value = JsSub(@, feeAmount)]
       /\ i' = i + 1
       /\ UNCHANGED <<DEV, pc, wallet, inputs, feeRate, inputAmount, feeAmount,
                      byteLengthCalls, error, result, watchVars>>

DeductFee ==
    /\ pc = "deductFee"
    /\ tx' = [tx EXCEPT !.outs[1].value = JsSub(@, feeAmount)]
    /\ pc' = "signInputs"
    /\ i' = 1
    /\ UNCHANGED <<DEV, wallet, inputs, feeRate, inputAmount, feeAmount,
                   byteLengthCalls, error, result, watchVars>>

\* the signing loop swallowing a failure and going on to the next input
SignInputSkipFailed ==
    /\ pc = "signInputs"
    /\ i <= Len(tx.ins)
    /\ LET prevOut == PrevOut(inputs, i)
       IN  IF BufferThrows(prevOut.script) \/ ~wallet.privateKeyValid
           THEN tx' = tx
           ELSE LET scriptPubKey == HexDecode(prevOut.script.hex)
                    sigHash == HashForSignature(tx, i, scriptPubKey, SIGHASH_ALL)
                    signature == AppendHashType(Sign(wallet.privateKey, sigHash),
                                                SIGHASH_ALL)
                IN  tx' = [tx EXCEPT !.ins[i].script =
                              PubKeyHashInput(signature, wallet.publicKey)]
    /\ i' = i + 1
    /\ UNCHANGED <<DEV, pc, wallet, inputs, feeRate, inputAmount, feeAmount,
                   byteLengthCalls, error, result, watchVars>>

SignInput ==
    /\ pc = "signInputs"
    /\ i <= Len(tx.ins)
    /\ LET prevOut == PrevOut(inputs, i)
       IN  IF BufferThrows(prevOut.script) \/ ~wallet.privateKeyValid
           THEN Throw("SigningFailure", <<i>>) /\ tx' = tx /\ i' = i
           ELSE LET scriptPubKey == HexDecode(prevOut.script.hex)
                    sigHash == HashForSignature(tx, i, scriptPubKey, SIGHASH_ALL)
                    signature == AppendHashType(Sign(wallet.privateKey, sigHash),
                                                SIGHASH_ALL)
                IN  /\ tx' = [tx EXCEPT !.ins[i].script =
                                 PubKeyHashInput(signature, wallet.publicKey)]
                    /\ i' = i + 1
                    /\ pc' = pc
                    /\ error' = error
    /\ UNCHANGED <<DEV, wallet, inputs, feeRate, inputAmount, feeAmount,
                   byteLengthCalls, result, watchVars>>

Return ==
    /\ pc = "signInputs"
    /\ i > Len(tx.ins)
    /\ result' = << [tx |-> tx,
                     paidAmount |-> inputAmount,
                     feeAmount |-> feeAmount,
                     atomAmount |-> AtomAmount(tx.outs[1].value)] >>
    /\ pc' = "returned"
    /\ UNCHANGED <<DEV, wallet, inputs, feeRate, inputAmount, tx, feeAmount, i,
                   byteLengthCalls, error, watchVars>>

\* ------------------------------------------------------- waitForPayment
\* What blockchain.info may answer to `unspent?active=<address>`
Responses ==
    { [netErr |-> TRUE, statusCode |-> 0, text |-> "", unspent_outputs |-> <<>>],
      [netErr |-> FALSE, statusCode |-> 500, text |-> "No free outputs to spend",
       unspent_outputs |-> <<>>],
      [netErr |-> FALSE, statusCode |-> 500, text |-> "Service Unavailable",
       unspent_outputs |-> <<>>] }
    \cup { [netErr |-> FALSE, statusCode |-> 200, text |-> "", unspent_outputs |-> u] :
             u \in InputLists }

\* bciRequest: what its callback receives, as [err, res]
BciRequest(r) ==
    IF r.netErr THEN [err |-> TRUE, text |-> "", body |-> <<>>]
    ELSE IF r.statusCode # 200 THEN [err |-> TRUE, text |-> r.text, body |-> <<>>]
    ELSE [err |-> FALSE, text |-> "", body |-> r.unspent_outputs]

\* fetchUtxos: what its callback receives
FetchUtxos(r) ==
    LET got == BciRequest(r)
    IN  IF got.err /\ got.text = "No free outputs to spend"
        THEN [err |-> FALSE, utxos |-> <<>>, amount |-> 0]
        ELSE IF got.err THEN [err |-> TRUE, utxos |-> <<>>, amount |-> 0]
        ELSE [err |-> FALSE, utxos |-> got.body,
              amount |-> SumValues(got.body, Len(got.body))]

\* the fetchUtxos callback of checkForUnspent returns without calling done
KeepWaiting(res) == ~res.err /\ res.amount < MINIMUM_AMOUNT

\* waitForPayment(address, cb): arm the timer, poll once at once
WaitForPayment ==
    /\ ~started
    /\ started' = TRUE
    /\ interval' = TRUE
    /\ inFlight' = inFlight + 1
    /\ UNCHANGED <<DEV, buildVars, doneCalls, cbCalls>>

\* the 6 second timer fires checkForUnspent
Tick ==
    /\ interval
    /\ inFlight < MaxInFlight
    /\ inFlight' = inFlight + 1
    /\ UNCHANGED <<DEV, buildVars, interval, started, doneCalls, cbCalls>>

\* a request is answered: the callbacks of bciRequest, fetchUtxos and
\* checkForUnspent run, and done if it is reached
Respond(r) ==
    /\ inFlight > 0
    /\ inFlight' = inFlight - 1
    /\ LET res == FetchUtxos(r)
       IN  IF KeepWaiting(res)
           THEN UNCHANGED <<interval, doneCalls, cbCalls>>
           ELSE /\ interval' = FALSE
                /\ doneCalls' = doneCalls + 1
                /\ cbCalls' = Append(cbCalls, [err |-> res.err,
                                               amount |-> res.amount,
                                               cleared |-> ~interval])
    /\ UNCHANGED <<DEV, buildVars, started>>

NoWallet == [privateKey |-> "", privateKeyValid |-> FALSE, publicKey |-> "",
             cosmos |-> <<>>]

InitBuild ==
    /\ pc = "idle"
    /\ wallet = NoWallet
    /\ inputs = <<>>
    /\ feeRate = Undefined
    /\ inputAmount = 0
    /\ tx = NewTransaction
    /\ feeAmount = Undefined
    /\ i = 0
    /\ byteLengthCalls = 0
    /\ error = NoError
    /\ result = <<>>

InitWatch ==
    /\ interval = FALSE
    /\ started = FALSE
    /\ inFlight = 0
    /\ doneCalls = 0
    /\ cbCalls = <<>>

Init ==
    /\ DEV \in BOOLEAN
    /\ InitBuild
    /\ InitWatch

Next ==
    \/ Call
    \/ CheckAmount
    \/ CheckFeeRate
    \/ AddInput
    \/ AddExodusOutput
    \/ AddCosmosOutput
    \/ ComputeFee
    \/ CheckFee
    \/ DeductFee
    \/ SignInput
    \/ Return

Spec == Init /\ [][Next]_vars

NextWatch ==
    \/ WaitForPayment
    \/ Tick
    \/ \E r \in Responses : Respond(r)

SpecWatch == Init /\ [][NextWatch]_vars

\* =============================================================== claims
\* helpers of the properties

\* the inverse of HexDecode: two hex digits for every byte
HexEncode(bytes) ==
    [k \in 1..(2 * Len(bytes)) |->
        IF k % 2 = 1 THEN bytes[(k + 1) \div 2] \div 16 ELSE bytes[k \div 2] % 16]

\* the sum of the supplied input values, counted from the front
RECURSIVE TotalFrom(_, _)
TotalFrom(utxos, k) ==
    IF k > Len(utxos) THEN 0 ELSE utxos[k].value + TotalFrom(utxos, k + 1)

InputTotal == TotalFrom(inputs, 1)

IsPositive(v) == v.kind = "num" /\ v.n > 0
IsInteger(v) == v.kind = "num" /\ v.d = 1

\* the transaction with every unlocking script empty
Unsigned(t) == [t EXCEPT !.ins = [k \in 1..Len(t.ins) |-> [t.ins[k] EXCEPT !.script = <<>>]]]

Signed(k) == tx.ins[k].script # <<>>
SomeSigned == \E k \in 1..Len(tx.ins) : Signed(k)
Outpoints(t) == [k \in 1..Len(t.ins) |-> <<t.ins[k].hash, t.ins[k].index>>]

\* the call got past the aggregate threshold check
PassedAmountCheck ==
    /\ pc \notin {"idle", "checkAmount"}
    /\ error.kind # "InsufficientAggregateAmount"

\* the call got past both precondition checks
PassedPreconditions ==
    /\ PassedAmountCheck
    /\ pc # "checkFeeRate"
    /\ error.kind # "InvalidFeeRate"

\* the fee check has been made: the call got past it, or was stopped by it
FeeCheckDone ==
    /\ PassedPreconditions
    /\ pc \notin {"addInputs", "addCosmosOutput", "computeFee", "checkFee"}

\* C1: a successful call returns output[0].value = sum of the input values
\* (= paidAmount) - feeAmount, at least MINIMUM_OUTPUT; a call that passes
\* both preconditions with sum - feeAmount < MINIMUM_OUTPUT throws the
\* fee-exceeds-funds error and returns nothing.
C1_FeeDeductedOrRejected ==
    /\ pc = "returned" =>
         LET r == result[1]
         IN  /\ r.paidAmount = InputTotal
             /\ r.tx.outs[1].value = JsSub(Num(InputTotal), r.feeAmount)
             /\ r.tx.outs[1].value.kind = "num"
             /\ r.tx.outs[1].value.n >= MINIMUM_OUTPUT * r.tx.outs[1].value.d
    /\ (FeeCheckDone /\ JsLess(JsSub(Num(InputTotal), feeAmount), Num(MINIMUM_OUTPUT))) =>
         /\ pc = "threw"
         /\ error.kind = "FeeExceedsAvailableFunds"
         /\ result = <<>>

C1_Witness ==
    /\ pc = "returned"
    /\ IsPositive(result[1].feeAmount)
    /\ JsLess(result[1].tx.outs[1].value, Num(result[1].paidAmount))

\* C2: the returned feeAmount is an integer, the unsigned byte length times
\* the fee rate truncated, and that integer is what output[0] lost.
C2_FeeIsTruncatedInteger ==
    pc = "returned" =>
        LET r == result[1]
            exact == JsMul(Num(ByteLength(Unsigned(r.tx))), feeRate)
        IN  /\ IsInteger(r.feeAmount)
            /\ r.feeAmount = Num(exact.n \div exact.d)
            /\ JsSub(Num(InputTotal), r.tx.outs[1].value) = r.feeAmount

\* C3: a sum of input values below MINIMUM_AMOUNT (the empty list included)
\* throws the insufficient-amount error with the required and actual totals,
\* with no input or output appended and no byteLength taken, whatever the fee rate.
C3_BelowMinimumRejectedFirst ==
    (pc \notin {"idle", "checkAmount"} /\ InputTotal < MINIMUM_AMOUNT) =>
        /\ pc = "threw"
        /\ error = [kind |-> "InsufficientAggregateAmount",
                    info |-> <<MINIMUM_AMOUNT, InputTotal>>]
        /\ tx.ins = <<>>
        /\ tx.outs = <<>>
        /\ byteLengthCalls = 0
        /\ result = <<>>

C3_Witness ==
    /\ pc = "threw"
    /\ error.kind = "InsufficientAggregateAmount"
    /\ Len(inputs) > 0
    /\ IsPositive(feeRate)

\* C4: past the threshold check, a fee rate is accepted only if it is a number
\* above 0; an absent, zero, negative or NaN rate throws the invalid-fee-rate
\* error before any input or output is appended, and every feeAmount computed
\* is a number above 0.
C4_OnlyPositiveFeeRate ==
    /\ (PassedAmountCheck /\ pc # "checkFeeRate") =>
         IF IsPositive(feeRate)
         THEN error.kind # "InvalidFeeRate"
         ELSE /\ pc = "threw"
              /\ error.kind = "InvalidFeeRate"
              /\ tx.ins = <<>>
              /\ tx.outs = <<>>
              /\ byteLengthCalls = 0
              /\ result = <<>>
    /\ feeAmount # Undefined => IsPositive(feeAmount)
    /\ (Len(tx.outs) > 0 /\ tx.outs[1].value # Num(inputAmount)) => IsPositive(feeAmount)

C4_Witness ==
    /\ pc = "threw"
    /\ error.kind = "InvalidFeeRate"
    /\ feeRate = Num(0)
    /\ InputTotal >= MINIMUM_AMOUNT

\* C5: the fee is deducted from output[0] before any signature hash is taken,
\* nothing a signature commits to (outputs, outpoints, input count) changes once
\* an input is signed, and every signature of the returned transaction commits
\* to the outputs that transaction carries.
C5_SignedStateIsFinal ==
    /\ SomeSigned => tx.outs[1].value = JsSub(Num(inputAmount), feeAmount)
    /\ \A k \in 1..Len(tx.ins) :
         Signed(k) => /\ tx.ins[k].script[1].sigHash.outs = tx.outs
                      /\ tx.ins[k].script[1].sigHash.outpoints = Outpoints(tx)
    /\ pc = "returned" =>
         \A k \in 1..Len(result[1].tx.ins) :
            /\ result[1].tx.ins[k].script # <<>>
            /\ result[1].tx.ins[k].script[1].sigHash.outs = result[1].tx.outs
            /\ result[1].tx.ins[k].script[1].sigHash.outs[1].value =
                 JsSub(Num(result[1].paidAmount), result[1].feeAmount)

C5_NoChangeAfterSigning ==
    SomeSigned => /\ tx'.outs = tx.outs
                  /\ Outpoints(tx') = Outpoints(tx)
                  /\ Len(tx'.ins) = Len(tx.ins)

C5_FeeDeductedBeforeSigning ==
    [](C5_SignedStateIsFinal) /\ [][C5_NoChangeAfterSigning]_vars

C5_Witness ==
    /\ pc = "returned"
    /\ Len(result[1].tx.ins) = 2
    /\ JsLess(result[1].tx.outs[1].value, Num(inputAmount))

\* C6: a successful call on n spendable outputs returns n inputs and 2 outputs,
\* output[1].value = 1000, and input k references the outpoint of the k-th
\* spendable output and is signed against that output's locking script.
C6_InputsAlignedWithUtxos ==
    pc = "returned" =>
        LET t == result[1].tx
        IN  /\ Len(t.ins) = Len(inputs)
            /\ Len(t.outs) = 2
            /\ t.outs[2].value = Num(1000)
            /\ \A k \in 1..Len(t.ins) :
                 /\ HexEncode(t.ins[k].hash) = inputs[k].tx_hash
                 /\ t.ins[k].index = inputs[k].tx_output_n
                 /\ t.ins[k].script # <<>>
                 /\ HexEncode(t.ins[k].script[1].sigHash.scripts[k]) = inputs[k].script.hex
                 /\ HexEncode(t.ins[k].script[1].sigHash.outpoints[k][1]) = inputs[k].tx_hash
                 /\ t.ins[k].script[1].sigHash.outpoints[k][2] = inputs[k].tx_output_n

C6_Witness ==
    /\ pc = "returned"
    /\ Len(inputs) = 2
    /\ inputs[1].script # inputs[2].script
    /\ inputs[1].tx_hash = inputs[2].tx_hash

\* C7: a returned transaction has an unlocking script (signature, public key)
\* on every input, and a call that threw, at a check or while signing input k,
\* returned nothing.
C7_NoPartialSuccess ==
    /\ result # <<>> =>
         /\ pc = "returned"
         /\ error = NoError
         /\ \A k \in 1..Len(result[1].tx.ins) :
              /\ Len(result[1].tx.ins[k].script) = 2
              /\ result[1].tx.ins[k].script[2] = wallet.publicKey
    /\ pc = "threw" => result = <<>>
    /\ pc = "returned" =>
         /\ wallet.privateKeyValid
         /\ \A k \in 1..Len(inputs) : ~BufferThrows(inputs[k].script)

C7_Witness ==
    /\ pc = "threw"
    /\ error.kind = "SigningFailure"
    /\ i = 2
    /\ Signed(1)
    /\ ~Signed(2)
    /\ result = <<>>

\* C8: at most one fetchUtxos request is in flight at any moment.
C8_OneRequestInFlight == inFlight <= 1

\* C9: the two outputs of a returned transaction together do not exceed the
\* sum of the input values.
C9_OutputsWithinInputs ==
    pc = "returned" =>
        LET t == result[1].tx
        IN  ~JsLess(JsSub(Num(InputTotal), t.outs[2].value), t.outs[1].value)

\* C10: cb is invoked at most once, never by a done that runs after the interval
\* was cleared, and a success invocation carries an amount >= MINIMUM_AMOUNT.
C10_CallbackAtMostOnce ==
    /\ Len(cbCalls) <= 1
    /\ \A k \in 1..Len(cbCalls) :
         /\ ~cbCalls[k].cleared
         /\ ~cbCalls[k].err => cbCalls[k].amount >= MINIMUM_AMOUNT

====
